---- MODULE Spec2Model ----
(***************************************************************************)
(* Order workflow engine of the delivery platform                          *)
(* (src/delivery_platform.py): the order state machine, the escrow ledger  *)
(* and the rider dispatch queue.                                           *)
(*                                                                         *)
(* Every public operation of DeliveryPlatform and of EscrowSystem is one   *)
(* action.  Each action records the call it models in the variable `call`  *)
(* (operation name, order id it was applied to, returned value), so that   *)
(* properties about return values and about "a call that fails changes     *)
(* nothing" can be stated.                                                 *)
(***************************************************************************)
EXTENDS Integers, Sequences, FiniteSets, TLC

VARIABLES
    riders,           \* DeliveryPlatform.riders: rider id -> Rider record
    rider_queue,      \* DeliveryPlatform.rider_queue: list of rider ids
    orders,           \* DeliveryPlatform.orders: order id -> Order record
    escrow_accounts,  \* EscrowSystem.escrow_accounts: order id -> account
    gps_tolerance,    \* DeliveryPlatform.gps_tolerance, in metres
    now,              \* the wall clock read by datetime.now(), in minutes
    log_limit,        \* how many history entries the run explores
    frame,            \* the invocation of _assign_next_rider under way
    threads,          \* concurrent callers: the operation each is inside
    call              \* the last operation invoked and what it returned

vars == <<riders, rider_queue, orders, escrow_accounts, gps_tolerance, now,
          log_limit, frame, threads, call>>

(* What no operation of the engine or of the ledger writes. *)
env == <<gps_tolerance, now, log_limit, frame, threads>>

(***************************************************************************)
(* Bounds of the model.                                                    *)
(***************************************************************************)
MaxRiders == 2
MaxOrders == 2
MaxLog == 16
MaxDeepLog == 20
MaxQueue == 3
MaxNow == 6
MaxClockLog == 12

(***************************************************************************)
(* Program constants.                                                      *)
(***************************************************************************)
NoRider == 0
DefaultGpsTolerance == 50
rider_timeout_min == 5
EarthRadius == 6371000

(* Frames the interpreter allows on its stack (its default). *)
RecursionLimit == 1000

OrderStatus ==
    << "PENDING_PAYMENT", "PAYMENT_ESCROWED", "RESTAURANT_NOTIFIED",
       "RESTAURANT_CONFIRMED", "SEEKING_RIDER", "RIDER_ASSIGNED",
       "RIDER_EN_ROUTE_PICKUP", "RIDER_AT_RESTAURANT", "ORDER_PICKED_UP",
       "RIDER_EN_ROUTE_DELIVERY", "RIDER_AT_DELIVERY", "DELIVERED" >>

PaymentStatus ==
    { "PENDING", "ESCROWED", "RESTAURANT_PAID", "RIDER_HALF_PAID",
      "RIDER_FULL_PAID" }

(* Coordinates are held in micro-degrees. *)
Location(lat, lon) == [latitude |-> lat, longitude |-> lon]

(* The restaurant and the customer of the demo data. *)
RestaurantLocation == Location(342600, 32577500)
CustomerLocation == Location(347600, 32582500)

(* Reported rider positions: on the meridian of the target, this many      *)
(* micro-degrees of latitude away from it.                                 *)
GpsOffsets == {0, 449, 450}

(* The item list and the delivery fee a customer orders with (53000 of     *)
(* items and a fee of 5000).                                               *)
ItemChoices ==
    { << [price |-> 25000, quantity |-> 2], [price |-> 3000, quantity |-> 1] >> }
FeeChoices == {5000}

(* Amounts a direct caller of the ledger may open an account with. *)
LedgerAmounts == { <<58000, 53000, 5000>>, <<17000, 12000, 5000>> }

(***************************************************************************)
(* Pure helpers.                                                           *)
(***************************************************************************)
Abs(x) == IF x < 0 THEN -x ELSE x

(* Location.distance_to, in millimetres.  For two points on one meridian   *)
(* dlon = 0, so a = sin(dlat/2)^2 and c = 2*atan2(sqrt(a), sqrt(1-a)) is   *)
(* |dlat| in radians: the distance is R * |dlat| * pi / 180, computed here *)
(* with pi = 355/113 and dlat in micro-degrees.                            *)
distance_to(a, b) ==
    (Abs(a.latitude - b.latitude) * (EarthRadius \div 1000) * 355) \div (180 * 113)

(* sum(i.price * i.quantity for i in items) *)
RECURSIVE items_sum(_)
items_sum(items) ==
    IF items = << >> THEN 0
    ELSE Head(items).price * Head(items).quantity + items_sum(Tail(items))

(* Order.add_status: sets the status and appends one history entry. *)
(* add_status writing over the last entry of the history. *)
add_status_rewrite(order, status) ==
    [order EXCEPT !.status = status,
                  !.status_history =
                      IF @ = << >> THEN << status >>
                      ELSE [@ EXCEPT ![Len(@)] = status]]

add_status(order, status) ==
    [order EXCEPT !.status = status,
                  !.status_history = Append(@, status)]

(***************************************************************************)
(* EscrowSystem: each method as a function from the ledger to the returned *)
(* value and the new ledger.                                               *)
(***************************************************************************)
(* create_escrow leaving the account of an order that has one as it is. *)
create_escrow_keep(accts, order_id, total, restaurant, rider) ==
    IF order_id \in DOMAIN accts
    THEN [ret |-> TRUE, accts |-> accts]
    ELSE [ret |-> TRUE,
          accts |-> (order_id :>
                  [total |-> total, restaurant_amount |-> restaurant,
                   rider_amount |-> rider, restaurant_paid |-> FALSE,
                   rider_half_paid |-> FALSE, rider_full_paid |-> FALSE])
               @@ accts]

create_escrow(accts, order_id, total, restaurant, rider) ==
    [ret |-> TRUE,
     accts |-> (order_id :>
                  [total |-> total, restaurant_amount |-> restaurant,
                   rider_amount |-> rider, restaurant_paid |-> FALSE,
                   rider_half_paid |-> FALSE, rider_full_paid |-> FALSE])
               @@ accts]

pay_restaurant(accts, order_id) ==
    IF order_id \in DOMAIN accts /\ ~accts[order_id].restaurant_paid
    THEN [ret |-> TRUE,
          accts |-> [accts EXCEPT ![order_id].restaurant_paid = TRUE]]
    ELSE [ret |-> FALSE, accts |-> accts]

(* pay_rider_half paying only after the restaurant was paid. *)
pay_rider_half_after_restaurant(accts, order_id) ==
    IF /\ order_id \in DOMAIN accts
       /\ accts[order_id].restaurant_paid
       /\ ~accts[order_id].rider_half_paid
    THEN [ret |-> TRUE,
          accts |-> [accts EXCEPT ![order_id].rider_half_paid = TRUE]]
    ELSE [ret |-> FALSE, accts |-> accts]

pay_rider_half(accts, order_id) ==
    IF order_id \in DOMAIN accts /\ ~accts[order_id].rider_half_paid
    THEN [ret |-> TRUE,
          accts |-> [accts EXCEPT ![order_id].rider_half_paid = TRUE]]
    ELSE [ret |-> FALSE, accts |-> accts]

(* pay_rider_full without the test of rider_half_paid. *)
pay_rider_full_no_half_check(accts, order_id) ==
    IF order_id \in DOMAIN accts /\ ~accts[order_id].rider_full_paid
    THEN [ret |-> TRUE,
          accts |-> [accts EXCEPT ![order_id].rider_full_paid = TRUE]]
    ELSE [ret |-> FALSE, accts |-> accts]

(* pay_rider_full setting the flag before it tests rider_half_paid. *)
pay_rider_full_set_then_test(accts, order_id) ==
    IF order_id \in DOMAIN accts /\ ~accts[order_id].rider_full_paid
    THEN [ret |-> accts[order_id].rider_half_paid,
          accts |-> [accts EXCEPT ![order_id].rider_full_paid = TRUE]]
    ELSE [ret |-> FALSE, accts |-> accts]

pay_rider_full(accts, order_id) ==
    IF /\ order_id \in DOMAIN accts
       /\ accts[order_id].rider_half_paid
       /\ ~accts[order_id].rider_full_paid
    THEN [ret |-> TRUE,
          accts |-> [accts EXCEPT ![order_id].rider_full_paid = TRUE]]
    ELSE [ret |-> FALSE, accts |-> accts]

(***************************************************************************)
(* DeliveryPlatform._assign_next_rider: pops the queue until it finds a    *)
(* registered, available rider; every popped entry is gone from the queue. *)
(***************************************************************************)
(* _assign_next_rider binding the rider it finds without popping it. *)
RECURSIVE assign_next_rider_keep(_, _)
assign_next_rider_keep(queue, rs) ==
    IF queue = << >>
    THEN [ret |-> FALSE, queue |-> queue, rider |-> NoRider]
    ELSE IF Head(queue) \notin DOMAIN rs \/ ~rs[Head(queue)].is_available
         THEN assign_next_rider_keep(Tail(queue), rs)
         ELSE [ret |-> TRUE, queue |-> queue, rider |-> Head(queue)]

(* _assign_next_rider taking riders from the tail of the queue. *)
RECURSIVE assign_next_rider_lifo(_, _)
assign_next_rider_lifo(queue, rs) ==
    IF queue = << >>
    THEN [ret |-> FALSE, queue |-> queue, rider |-> NoRider]
    ELSE LET last == queue[Len(queue)]
             front == SubSeq(queue, 1, Len(queue) - 1)
         IN  IF last \notin DOMAIN rs \/ ~rs[last].is_available
             THEN assign_next_rider_lifo(front, rs)
             ELSE [ret |-> TRUE, queue |-> front, rider |-> last]

RECURSIVE assign_next_rider(_, _)
assign_next_rider(queue, rs) ==
    IF queue = << >>
    THEN [ret |-> FALSE, queue |-> queue, rider |-> NoRider]
    ELSE IF Head(queue) \notin DOMAIN rs \/ ~rs[Head(queue)].is_available
         THEN assign_next_rider(Tail(queue), rs)
         ELSE [ret |-> TRUE, queue |-> Tail(queue), rider |-> Head(queue)]

Bool(b) == IF b THEN "True" ELSE "False"

Called(op, o, ret) == call' = [op |-> op, order |-> o, ret |-> ret]

(* Orders are never deleted and their histories only grow: the model stops *)
(* appending once all histories together hold log_limit entries.           *)
RECURSIVE LogSize(_)
LogSize(n) ==
    IF n = 0 THEN 0 ELSE Len(orders[n].status_history) + LogSize(n - 1)

(* No invocation of _assign_next_rider is under way. *)
NoFrame ==
    [pc |-> "idle", order |-> 0, frames |-> 0, inspected |-> 0,
     queued |-> 0, eligible |-> FALSE]

(* The callers that share the platform instance. *)
Callers == {1, 2}

(* A caller that is inside no operation. *)
IdleCaller ==
    [pc |-> "idle", op |-> "", order |-> 0, ret |-> "None",
     rider_id |-> NoRider]

HistRoom(o, n) == LogSize(Cardinality(DOMAIN orders)) + n <= log_limit

(***************************************************************************)
(* Initial state: a freshly constructed DeliveryPlatform.                  *)
(***************************************************************************)
Init ==
    /\ riders = << >>
    /\ rider_queue = << >>
    /\ orders = << >>
    /\ escrow_accounts = << >>
    /\ gps_tolerance = DefaultGpsTolerance
    /\ now = 0
    /\ log_limit = MaxLog
    /\ frame = NoFrame
    /\ threads = [t \in Callers |-> IdleCaller]
    /\ call = [op |-> "init", order |-> 0, ret |-> "None"]

(***************************************************************************)
(* Engine operations.                                                      *)
(***************************************************************************)
(* register_rider storing the rider without putting the id in the queue. *)
register_rider_unqueued ==
    /\ Cardinality(DOMAIN riders) < MaxRiders
    /\ LET id == Cardinality(DOMAIN riders) + 1 IN
         /\ riders' = (id :> [is_available |-> TRUE, total_deliveries |-> 0])
                      @@ riders
         /\ Called("register_rider", id, "Rider")
    /\ UNCHANGED <<rider_queue, orders, escrow_accounts, env>>

register_rider ==
    /\ Cardinality(DOMAIN riders) < MaxRiders
    /\ LET id == Cardinality(DOMAIN riders) + 1 IN
         /\ riders' = (id :> [is_available |-> TRUE, total_deliveries |-> 0])
                      @@ riders
         /\ rider_queue' = Append(rider_queue, id)
         /\ Called("register_rider", id, "Rider")
    /\ UNCHANGED <<orders, escrow_accounts, env>>

place_order(items, delivery_fee) ==
    /\ Cardinality(DOMAIN orders) < MaxOrders
    /\ LogSize(Cardinality(DOMAIN orders)) + 1 <= log_limit
    /\ LET id == Cardinality(DOMAIN orders) + 1
           order == [status |-> "PENDING_PAYMENT",
                     payment_status |-> "PENDING",
                     items |-> items,
                     total_amount |-> items_sum(items) + delivery_fee,
                     delivery_fee |-> delivery_fee,
                     assigned_rider |-> NoRider,
                     rider_acceptance_deadline |-> -1,
                     status_history |-> << >>]
       IN
         /\ orders' = (id :> add_status(order, "PENDING_PAYMENT")) @@ orders
         /\ Called("place_order", id, "Order")
    /\ UNCHANGED <<riders, rider_queue, escrow_accounts, env>>

process_payment(o) ==
    /\ HistRoom(o, 2)
    /\ LET order == orders[o]
           restaurant_cut == items_sum(order.items)
           opened == create_escrow(escrow_accounts, o, order.total_amount,
                                   restaurant_cut, order.delivery_fee)
           paid == [order EXCEPT !.payment_status = "ESCROWED"]
       IN
         /\ escrow_accounts' = opened.accts
         /\ orders' = [orders EXCEPT ![o] =
                add_status(add_status(paid, "PAYMENT_ESCROWED"),
                           "RESTAURANT_NOTIFIED")]
         /\ Called("process_payment", o, "True")
    /\ UNCHANGED <<riders, rider_queue, env>>

(* _seek_rider recording the status without looking for a rider. *)
seek_rider_no_assign(order, queue, rs) ==
    [queue |-> queue, order |-> add_status(order, "SEEKING_RIDER")]

(* _seek_rider followed by _assign_next_rider, applied to the order record *)
(* and the queue; yields the new order record and the new queue.           *)
seek_rider(order, queue, rs) ==
    LET seeking == add_status(order, "SEEKING_RIDER")
        popped == assign_next_rider(queue, rs)
    IN  IF popped.ret
        THEN [queue |-> popped.queue,
              order |-> add_status(
                  [seeking EXCEPT
                      !.assigned_rider = popped.rider,
                      !.rider_acceptance_deadline = now + rider_timeout_min],
                  "RIDER_ASSIGNED")]
        ELSE [queue |-> popped.queue, order |-> seeking]

(* restaurant_confirm_order over an assignment that pops without looking *)
(* whether a rider waits.                                                *)
restaurant_confirm_order_blind_pop(o) ==
    /\ HistRoom(o, 3)
    /\ IF orders[o].status # "RESTAURANT_NOTIFIED"
       THEN /\ Called("restaurant_confirm_order", o, "False")
            /\ UNCHANGED <<orders, escrow_accounts, rider_queue>>
       ELSE LET pay == pay_restaurant(escrow_accounts, o) IN
            IF pay.ret
            THEN LET paid == [orders[o] EXCEPT
                                 !.payment_status = "RESTAURANT_PAID"]
                     confirmed == add_status(paid, "RESTAURANT_CONFIRMED")
                     sought == seek_rider(confirmed, rider_queue, riders)
                 IN /\ escrow_accounts' = pay.accts
                    /\ orders' = [orders EXCEPT ![o] = sought.order]
                    /\ rider_queue' = sought.queue
                    /\ Called("restaurant_confirm_order", o,
                              IF sought.order.status = "RIDER_ASSIGNED"
                              THEN "True" ELSE "IndexError")
            ELSE /\ Called("restaurant_confirm_order", o, "False")
                 /\ UNCHANGED <<orders, escrow_accounts, rider_queue>>
    /\ UNCHANGED <<riders, env>>

restaurant_confirm_order(o) ==
    /\ HistRoom(o, 3)
    /\ IF orders[o].status # "RESTAURANT_NOTIFIED"
       THEN /\ Called("restaurant_confirm_order", o, "False")
            /\ UNCHANGED <<orders, escrow_accounts, rider_queue>>
       ELSE LET pay == pay_restaurant(escrow_accounts, o) IN
            IF pay.ret
            THEN LET paid == [orders[o] EXCEPT
                                 !.payment_status = "RESTAURANT_PAID"]
                     confirmed == add_status(paid, "RESTAURANT_CONFIRMED")
                     sought == seek_rider(confirmed, rider_queue, riders)
                 IN /\ escrow_accounts' = pay.accts
                    /\ orders' = [orders EXCEPT ![o] = sought.order]
                    /\ rider_queue' = sought.queue
                    /\ Called("restaurant_confirm_order", o, "True")
            ELSE /\ Called("restaurant_confirm_order", o, "False")
                 /\ UNCHANGED <<orders, escrow_accounts, rider_queue>>
    /\ UNCHANGED <<riders, env>>

(* rider_accept_order refusing an acceptance that comes after the deadline. *)
rider_accept_order_in_time(o) ==
    /\ HistRoom(o, 1)
    /\ IF orders[o].status # "RIDER_ASSIGNED"
          \/ orders[o].assigned_rider = NoRider
          \/ now > orders[o].rider_acceptance_deadline
       THEN /\ Called("rider_accept_order", o, "False")
            /\ UNCHANGED <<orders, riders>>
       ELSE /\ riders' = [riders EXCEPT
                ![orders[o].assigned_rider].is_available = FALSE]
            /\ orders' = [orders EXCEPT ![o] =
                add_status(@, "RIDER_EN_ROUTE_PICKUP")]
            /\ Called("rider_accept_order", o, "True")
    /\ UNCHANGED <<rider_queue, escrow_accounts, env>>

rider_accept_order(o) ==
    /\ HistRoom(o, 1)
    /\ IF orders[o].status # "RIDER_ASSIGNED"
          \/ orders[o].assigned_rider = NoRider
       THEN /\ Called("rider_accept_order", o, "False")
            /\ UNCHANGED <<orders, riders>>
       ELSE /\ riders' = [riders EXCEPT
                ![orders[o].assigned_rider].is_available = FALSE]
            /\ orders' = [orders EXCEPT ![o] =
                add_status(@, "RIDER_EN_ROUTE_PICKUP")]
            /\ Called("rider_accept_order", o, "True")
    /\ UNCHANGED <<rider_queue, escrow_accounts, env>>

(* check_rider_at_restaurant comparing with < in place of <=. *)
check_rider_at_restaurant_strict(o, rider_location) ==
    /\ HistRoom(o, 1)
    /\ IF orders[o].status = "RIDER_EN_ROUTE_PICKUP"
          /\ distance_to(rider_location, RestaurantLocation)
                < gps_tolerance * 1000
       THEN /\ orders' = [orders EXCEPT ![o] =
                   add_status(@, "RIDER_AT_RESTAURANT")]
            /\ Called("check_rider_at_restaurant", o, "True")
       ELSE /\ Called("check_rider_at_restaurant", o, "False")
            /\ UNCHANGED orders
    /\ UNCHANGED <<riders, rider_queue, escrow_accounts, env>>

check_rider_at_restaurant(o, rider_location) ==
    /\ HistRoom(o, 1)
    /\ IF orders[o].status # "RIDER_EN_ROUTE_PICKUP"
       THEN /\ Called("check_rider_at_restaurant", o, "False")
            /\ UNCHANGED orders
       ELSE IF distance_to(rider_location, RestaurantLocation)
                   <= gps_tolerance * 1000
            THEN /\ orders' = [orders EXCEPT ![o] =
                        add_status(@, "RIDER_AT_RESTAURANT")]
                 /\ Called("check_rider_at_restaurant", o, "True")
            ELSE /\ Called("check_rider_at_restaurant", o, "False")
                 /\ UNCHANGED orders
    /\ UNCHANGED <<riders, rider_queue, escrow_accounts, env>>

(* confirm_pickup leaving payment_status as it was. *)
confirm_pickup_unmarked(o) ==
    /\ HistRoom(o, 2)
    /\ IF orders[o].status # "RIDER_AT_RESTAURANT"
       THEN /\ Called("confirm_pickup", o, "False")
            /\ UNCHANGED <<orders, escrow_accounts>>
       ELSE LET pay == pay_rider_half(escrow_accounts, o) IN
            IF pay.ret
            THEN LET paid == orders[o]
                 IN /\ escrow_accounts' = pay.accts
                    /\ orders' = [orders EXCEPT ![o] =
                          add_status(add_status(paid, "ORDER_PICKED_UP"),
                                     "RIDER_EN_ROUTE_DELIVERY")]
                    /\ Called("confirm_pickup", o, "True")
            ELSE /\ Called("confirm_pickup", o, "False")
                 /\ UNCHANGED <<orders, escrow_accounts>>
    /\ UNCHANGED <<riders, rider_queue, env>>

confirm_pickup(o) ==
    /\ HistRoom(o, 2)
    /\ IF orders[o].status # "RIDER_AT_RESTAURANT"
       THEN /\ Called("confirm_pickup", o, "False")
            /\ UNCHANGED <<orders, escrow_accounts>>
       ELSE LET pay == pay_rider_half(escrow_accounts, o) IN
            IF pay.ret
            THEN LET paid == [orders[o] EXCEPT
                                 !.payment_status = "RIDER_HALF_PAID"]
                 IN /\ escrow_accounts' = pay.accts
                    /\ orders' = [orders EXCEPT ![o] =
                          add_status(add_status(paid, "ORDER_PICKED_UP"),
                                     "RIDER_EN_ROUTE_DELIVERY")]
                    /\ Called("confirm_pickup", o, "True")
            ELSE /\ Called("confirm_pickup", o, "False")
                 /\ UNCHANGED <<orders, escrow_accounts>>
    /\ UNCHANGED <<riders, rider_queue, env>>

check_rider_at_delivery(o, rider_location) ==
    /\ HistRoom(o, 1)
    /\ IF orders[o].status # "RIDER_EN_ROUTE_DELIVERY"
       THEN /\ Called("check_rider_at_delivery", o, "False")
            /\ UNCHANGED orders
       ELSE IF distance_to(rider_location, CustomerLocation)
                   <= gps_tolerance * 1000
            THEN /\ orders' = [orders EXCEPT ![o] =
                        add_status(@, "RIDER_AT_DELIVERY")]
                 /\ Called("check_rider_at_delivery", o, "True")
            ELSE /\ Called("check_rider_at_delivery", o, "False")
                 /\ UNCHANGED orders
    /\ UNCHANGED <<riders, rider_queue, escrow_accounts, env>>

(* confirm_delivery that counts the delivery and frees the rider without    *)
(* confirm_delivery putting the rider at the head of the queue. *)
confirm_delivery_requeue_first(o) ==
    /\ HistRoom(o, 1)
    /\ IF orders[o].status # "RIDER_AT_DELIVERY"
       THEN /\ Called("confirm_delivery", o, "False")
            /\ UNCHANGED <<orders, escrow_accounts, riders, rider_queue>>
       ELSE LET pay == pay_rider_full(escrow_accounts, o)
                rider == orders[o].assigned_rider
            IN
            IF pay.ret /\ rider # NoRider
            THEN /\ escrow_accounts' = pay.accts
                 /\ orders' = [orders EXCEPT ![o] =
                       add_status([@ EXCEPT !.payment_status = "RIDER_FULL_PAID"],
                                  "DELIVERED")]
                 /\ riders' = [riders EXCEPT ![rider] =
                       [is_available |-> TRUE,
                        total_deliveries |-> @.total_deliveries + 1]]
                 /\ rider_queue' = << rider >> \o rider_queue
                 /\ Called("confirm_delivery", o, "True")
            ELSE /\ Called("confirm_delivery", o, "False")
                 /\ UNCHANGED <<orders, escrow_accounts, riders, rider_queue>>
    /\ UNCHANGED env

(* confirm_delivery leaving the rider's is_available flag as it is. *)
confirm_delivery_stays_busy(o) ==
    /\ HistRoom(o, 1)
    /\ IF orders[o].status # "RIDER_AT_DELIVERY"
       THEN /\ Called("confirm_delivery", o, "False")
            /\ UNCHANGED <<orders, escrow_accounts, riders, rider_queue>>
       ELSE LET pay == pay_rider_full(escrow_accounts, o)
                rider == orders[o].assigned_rider
            IN
            IF pay.ret /\ rider # NoRider
            THEN /\ escrow_accounts' = pay.accts
                 /\ orders' = [orders EXCEPT ![o] =
                       add_status([@ EXCEPT !.payment_status = "RIDER_FULL_PAID"],
                                  "DELIVERED")]
                 /\ riders' = [riders EXCEPT ![rider].total_deliveries = @ + 1]
                 /\ rider_queue' = Append(rider_queue, rider)
                 /\ Called("confirm_delivery", o, "True")
            ELSE /\ Called("confirm_delivery", o, "False")
                 /\ UNCHANGED <<orders, escrow_accounts, riders, rider_queue>>
    /\ UNCHANGED env

(* returning the rider to the queue.                                       *)
confirm_delivery_no_requeue(o) ==
    /\ HistRoom(o, 1)
    /\ IF orders[o].status # "RIDER_AT_DELIVERY"
       THEN /\ Called("confirm_delivery", o, "False")
            /\ UNCHANGED <<orders, escrow_accounts, riders>>
       ELSE LET pay == pay_rider_full(escrow_accounts, o)
                rider == orders[o].assigned_rider
            IN
            IF pay.ret /\ rider # NoRider
            THEN /\ escrow_accounts' = pay.accts
                 /\ orders' = [orders EXCEPT ![o] =
                       add_status([@ EXCEPT !.payment_status = "RIDER_FULL_PAID"],
                                  "DELIVERED")]
                 /\ riders' = [riders EXCEPT ![rider] =
                       [is_available |-> TRUE,
                        total_deliveries |-> @.total_deliveries + 1]]
                 /\ Called("confirm_delivery", o, "True")
            ELSE /\ Called("confirm_delivery", o, "False")
                 /\ UNCHANGED <<orders, escrow_accounts, riders>>
    /\ UNCHANGED <<rider_queue, env>>

(* When the order has no rider bound, order.assigned_rider.total_deliveries *)
(* raises AttributeError after the payout and the status change were made.  *)
confirm_delivery(o) ==
    /\ HistRoom(o, 1)
    /\ IF orders[o].status # "RIDER_AT_DELIVERY"
       THEN /\ Called("confirm_delivery", o, "False")
            /\ UNCHANGED <<orders, escrow_accounts, riders, rider_queue>>
       ELSE LET pay == pay_rider_full(escrow_accounts, o)
                rider == orders[o].assigned_rider
            IN
            IF pay.ret
            THEN LET paid == [orders[o] EXCEPT
                                 !.payment_status = "RIDER_FULL_PAID"]
                 IN /\ escrow_accounts' = pay.accts
                    /\ orders' = [orders EXCEPT ![o] =
                          add_status(paid, "DELIVERED")]
                    /\ IF rider = NoRider
                       THEN /\ Called("confirm_delivery", o, "AttributeError")
                            /\ UNCHANGED <<riders, rider_queue>>
                       ELSE /\ riders' = [riders EXCEPT ![rider] =
                                  [is_available |-> TRUE,
                                   total_deliveries |-> @.total_deliveries + 1]]
                            /\ rider_queue' = Append(rider_queue, rider)
                            /\ Called("confirm_delivery", o, "True")
            ELSE /\ Called("confirm_delivery", o, "False")
                 /\ UNCHANGED <<orders, escrow_accounts, riders, rider_queue>>
    /\ UNCHANGED env

(* A rider position reported for a target: on its meridian, off by d. *)
Near(target, d) == Location(target.latitude + d, target.longitude)

Next ==
    \/ register_rider
    \/ \E items \in ItemChoices, fee \in FeeChoices : place_order(items, fee)
    \/ \E o \in DOMAIN orders : process_payment(o)
    \/ \E o \in DOMAIN orders : restaurant_confirm_order(o)
    \/ \E o \in DOMAIN orders : rider_accept_order(o)
    \/ \E o \in DOMAIN orders, d \in GpsOffsets :
          check_rider_at_restaurant(o, Near(RestaurantLocation, d))
    \/ \E o \in DOMAIN orders : confirm_pickup(o)
    \/ \E o \in DOMAIN orders, d \in GpsOffsets :
          check_rider_at_delivery(o, Near(CustomerLocation, d))
    \/ \E o \in DOMAIN orders : confirm_delivery(o)

Spec == Init /\ [][Next]_vars

(* The engine explored further: far enough for a rider to finish one order *)
(* and be dispatched to the next.                                          *)
DeepInit ==
    /\ riders = << >>
    /\ rider_queue = << >>
    /\ orders = << >>
    /\ escrow_accounts = << >>
    /\ gps_tolerance = DefaultGpsTolerance
    /\ now = 0
    /\ log_limit = MaxDeepLog
    /\ frame = NoFrame
    /\ threads = [t \in Callers |-> IdleCaller]
    /\ call = [op |-> "init", order |-> 0, ret |-> "None"]

DeepSpec == DeepInit /\ [][Next]_vars

(* The tolerances a platform is constructed with: the default, and zero,   *)
(* which only a rider standing on the target meets.                        *)
GpsTolerances == {0, DefaultGpsTolerance}

GpsInit ==
    /\ riders = << >>
    /\ rider_queue = << >>
    /\ orders = << >>
    /\ escrow_accounts = << >>
    /\ gps_tolerance \in GpsTolerances
    /\ now = 0
    /\ log_limit = MaxLog
    /\ frame = NoFrame
    /\ threads = [t \in Callers |-> IdleCaller]
    /\ call = [op |-> "init", order |-> 0, ret |-> "None"]

(* The engine of a platform constructed with either tolerance. *)
GpsSpec == GpsInit /\ [][Next]_vars

(***************************************************************************)
(* The escrow ledger called directly (platform.escrow is a public          *)
(* attribute and EscrowSystem a public class), with any order id.          *)
(***************************************************************************)
escrow_create_escrow(order_id, total, restaurant, rider) ==
    LET r == create_escrow(escrow_accounts, order_id, total, restaurant, rider)
    IN  /\ escrow_accounts' = r.accts
        /\ Called("create_escrow", order_id, Bool(r.ret))
        /\ UNCHANGED <<riders, rider_queue, orders, env>>

escrow_pay_restaurant(order_id) ==
    LET r == pay_restaurant(escrow_accounts, order_id)
    IN  /\ escrow_accounts' = r.accts
        /\ Called("pay_restaurant", order_id, Bool(r.ret))
        /\ UNCHANGED <<riders, rider_queue, orders, env>>

escrow_pay_rider_half(order_id) ==
    LET r == pay_rider_half(escrow_accounts, order_id)
    IN  /\ escrow_accounts' = r.accts
        /\ Called("pay_rider_half", order_id, Bool(r.ret))
        /\ UNCHANGED <<riders, rider_queue, orders, env>>

escrow_pay_rider_full(order_id) ==
    LET r == pay_rider_full(escrow_accounts, order_id)
    IN  /\ escrow_accounts' = r.accts
        /\ Called("pay_rider_full", order_id, Bool(r.ret))
        /\ UNCHANGED <<riders, rider_queue, orders, env>>

OrderIds == 1 .. MaxOrders

LedgerNext ==
    \/ \E id \in OrderIds, amt \in LedgerAmounts :
          escrow_create_escrow(id, amt[1], amt[2], amt[3])
    \/ \E id \in OrderIds : escrow_pay_restaurant(id)
    \/ \E id \in OrderIds : escrow_pay_rider_half(id)
    \/ \E id \in OrderIds : escrow_pay_rider_full(id)

(* The ledger on its own. *)
LedgerSpec == Init /\ [][LedgerNext]_vars

(* The engine together with a caller that opens the account of an existing *)
(* order again, directly on the ledger, with that order's amounts.         *)
PlatformNext ==
    \/ Next
    \/ \E o \in DOMAIN orders :
          escrow_create_escrow(o, orders[o].total_amount,
                               items_sum(orders[o].items), orders[o].delivery_fee)

PlatformSpec == Init /\ [][PlatformNext]_vars

(***************************************************************************)
(* riderRejectOrTimeout (specification, section 4.3): on an order that is  *)
(* RIDER_ASSIGNED it returns the current rider to the queue, re-marks the  *)
(* rider available, clears the assignment and retries _assign_next_rider.  *)
(***************************************************************************)
rider_reject_or_timeout(o) ==
    /\ HistRoom(o, 1)
    /\ IF orders[o].status # "RIDER_ASSIGNED"
          \/ orders[o].assigned_rider = NoRider
       THEN /\ Called("rider_reject_or_timeout", o, "False")
            /\ UNCHANGED <<orders, riders, rider_queue>>
       ELSE LET rider == orders[o].assigned_rider
                returned == Append(rider_queue, rider)
                idle == [riders EXCEPT ![rider].is_available = TRUE]
                cleared == [orders[o] EXCEPT !.assigned_rider = NoRider]
                popped == assign_next_rider(returned, idle)
            IN  /\ riders' = idle
                /\ rider_queue' = popped.queue
                /\ orders' = [orders EXCEPT ![o] =
                      IF popped.ret
                      THEN add_status(
                             [cleared EXCEPT
                                !.assigned_rider = popped.rider,
                                !.rider_acceptance_deadline =
                                    now + rider_timeout_min],
                             "RIDER_ASSIGNED")
                      ELSE cleared]
                /\ Called("rider_reject_or_timeout", o, Bool(popped.ret))
    /\ UNCHANGED <<escrow_accounts, env>>

DispatchNext ==
    \/ Next
    \/ \E o \in DOMAIN orders : rider_reject_or_timeout(o)

(* The engine together with riders who reject or let the offer time out. *)
DispatchSpec == Init /\ [][DispatchNext]_vars

(***************************************************************************)
(* _assign_next_rider on any queue content, one invocation per step.       *)
(* frame.frames is the depth of the interpreter's stack at the invocation  *)
(* under way; a recursive call that would exceed the recursion limit       *)
(* raises RecursionError.  frame.queued and frame.eligible record how many *)
(* entries the queue held when the first invocation began and whether one  *)
(* of them was a registered, available rider.                              *)
(***************************************************************************)
(* An id no rider is registered under. *)
UnregisteredId == MaxRiders + 1

(* Every queue of at most MaxQueue entries, registered or not. *)
ShortQueues ==
    UNION { [1 .. n -> 1 .. UnregisteredId] : n \in 0 .. MaxQueue }

(* A queue of nothing but stale entries, as long as the recursion limit. *)
StaleQueue == [i \in 1 .. RecursionLimit |-> UnregisteredId]

(* Stack depth of the first invocation: called from the top level, or      *)
(* through restaurant_confirm_order and _seek_rider.                       *)
StackDepths == {2, 4}

(* An order as _seek_rider hands it to _assign_next_rider. *)
SeekingOrder ==
    LET items == CHOOSE i \in ItemChoices : TRUE
        fee == CHOOSE f \in FeeChoices : TRUE
    IN  add_status(
          [status |-> "RESTAURANT_CONFIRMED",
           payment_status |-> "RESTAURANT_PAID",
           items |-> items,
           total_amount |-> items_sum(items) + fee,
           delivery_fee |-> fee,
           assigned_rider |-> NoRider,
           rider_acceptance_deadline |-> -1,
           status_history |-> << "PENDING_PAYMENT", "PAYMENT_ESCROWED",
                                 "RESTAURANT_NOTIFIED", "RESTAURANT_CONFIRMED" >>],
          "SEEKING_RIDER")

DequeueInit ==
    /\ riders \in [1 .. MaxRiders ->
                      [is_available : BOOLEAN, total_deliveries : {0}]]
    /\ rider_queue \in ShortQueues \cup {StaleQueue}
    /\ orders = <<SeekingOrder>>
    /\ escrow_accounts =
          pay_restaurant(
            create_escrow(<< >>, 1, SeekingOrder.total_amount,
                          items_sum(SeekingOrder.items),
                          SeekingOrder.delivery_fee).accts, 1).accts
    /\ gps_tolerance = DefaultGpsTolerance
    /\ now = 0
    /\ log_limit = MaxLog
    /\ \E depth \in StackDepths :
          frame = [pc |-> "running", order |-> 1, frames |-> depth,
                   inspected |-> 0, queued |-> Len(rider_queue),
                   eligible |-> \E i \in 1 .. Len(rider_queue) :
                                   /\ rider_queue[i] \in DOMAIN riders
                                   /\ riders[rider_queue[i]].is_available]
    /\ threads = [t \in Callers |-> IdleCaller]
    /\ call = [op |-> "_seek_rider", order |-> 1, ret |-> "None"]

assign_next_rider_step ==
    /\ frame.pc = "running"
    /\ LET o == frame.order
           finished == [frame EXCEPT !.pc = "done"]
           popped == [frame EXCEPT !.inspected = @ + 1]
       IN
       IF rider_queue = << >>
       THEN /\ frame' = finished
            /\ Called("_assign_next_rider", o, "False")
            /\ UNCHANGED <<rider_queue, orders>>
       ELSE LET rider_id == Head(rider_queue) IN
            /\ rider_queue' = Tail(rider_queue)
            /\ IF rider_id \notin DOMAIN riders \/ ~riders[rider_id].is_available
               THEN IF frame.frames + 1 > RecursionLimit
                    THEN /\ frame' = [popped EXCEPT !.pc = "done"]
                         /\ Called("_assign_next_rider", o, "RecursionError")
                         /\ UNCHANGED orders
                    ELSE /\ frame' = [popped EXCEPT !.frames = @ + 1]
                         /\ UNCHANGED <<orders, call>>
               ELSE /\ orders' = [orders EXCEPT ![o] =
                          add_status(
                            [@ EXCEPT
                               !.assigned_rider = rider_id,
                               !.rider_acceptance_deadline =
                                   now + rider_timeout_min],
                            "RIDER_ASSIGNED")]
                    /\ frame' = [popped EXCEPT !.pc = "done"]
                    /\ Called("_assign_next_rider", o, "True")
    /\ UNCHANGED <<riders, escrow_accounts, gps_tolerance, now, log_limit,
                   threads>>

DequeueNext == assign_next_rider_step

DequeueSpec == DequeueInit /\ [][DequeueNext]_vars

(***************************************************************************)
(* get_order_journey: the projection of an order for display.  The step of *)
(* a status is looked up in journey_map; a status missing from the map has *)
(* step 0.  progress_percentage is held in hundredths of a percent and the *)
(* rider's name is stood for by the rider's id.                            *)
(***************************************************************************)
journey_map(status) ==
    CASE status = "PENDING_PAYMENT" -> 1
      [] status = "PAYMENT_ESCROWED" -> 2
      [] status = "RESTAURANT_NOTIFIED" -> 3
      [] status = "RESTAURANT_CONFIRMED" -> 4
      [] status = "SEEKING_RIDER" -> 5
      [] status = "RIDER_ASSIGNED" -> 6
      [] status = "RIDER_EN_ROUTE_PICKUP" -> 7
      [] status = "RIDER_AT_RESTAURANT" -> 8
      [] status = "ORDER_PICKED_UP" -> 9
      [] status = "RIDER_EN_ROUTE_DELIVERY" -> 10
      [] status = "RIDER_AT_DELIVERY" -> 11
      [] status = "DELIVERED" -> 12
      [] OTHER -> 0

get_order_journey(o) ==
    /\ call' = [op |-> "get_order_journey", order |-> o, ret |-> "dict",
                journey |->
                  [current_status |-> orders[o].status,
                   current_step |-> journey_map(orders[o].status),
                   total_steps |-> 12,
                   progress_percentage |->
                       (journey_map(orders[o].status) * 10000) \div 12,
                   assigned_rider |-> orders[o].assigned_rider,
                   history |-> orders[o].status_history]]
    /\ UNCHANGED <<riders, rider_queue, orders, escrow_accounts, env>>

JourneyNext ==
    \/ Next
    \/ \E o \in DOMAIN orders : get_order_journey(o)

(* The engine together with the display of orders. *)
JourneySpec == Init /\ [][JourneyNext]_vars

(***************************************************************************)
(* Concurrent callers.  The platform is one shared instance (get_instance) *)
(* and holds no lock: a caller inside restaurant_confirm_order or          *)
(* rider_accept_order advances one statement at a time, and the statements *)
(* of two callers interleave in any order.  A ledger call, a list pop and  *)
(* add_status are each one step.                                           *)
(***************************************************************************)

(* An order as place_order and process_payment leave it. *)
NotifiedOrder ==
    LET items == CHOOSE i \in ItemChoices : TRUE
        fee == CHOOSE f \in FeeChoices : TRUE
    IN  add_status(add_status(add_status(
          [status |-> "PENDING_PAYMENT",
           payment_status |-> "ESCROWED",
           items |-> items,
           total_amount |-> items_sum(items) + fee,
           delivery_fee |-> fee,
           assigned_rider |-> NoRider,
           rider_acceptance_deadline |-> -1,
           status_history |-> << >>],
          "PENDING_PAYMENT"), "PAYMENT_ESCROWED"), "RESTAURANT_NOTIFIED")

(* The ledger entry of such an order, the restaurant paid or not. *)
AccountOf(order, restaurant_paid) ==
    [total |-> order.total_amount,
     restaurant_amount |-> items_sum(order.items),
     rider_amount |-> order.delivery_fee,
     restaurant_paid |-> restaurant_paid,
     rider_half_paid |-> FALSE, rider_full_paid |-> FALSE]

(* n riders registered, every order paid for, and the first a orders       *)
(* confirmed by the restaurant one after the other: order i holds rider i, *)
(* the riders after a still wait.                                          *)
ConcurrentInit ==
    \E n \in 1..MaxRiders :
      \E a \in 0..(IF n < MaxOrders THEN n ELSE MaxOrders) :
        /\ gps_tolerance = DefaultGpsTolerance
        /\ now = 0
        /\ riders = [r \in 1..n |-> [is_available |-> TRUE,
                                     total_deliveries |-> 0]]
        /\ rider_queue = [i \in 1..(n - a) |-> a + i]
        /\ orders = [o \in 1..MaxOrders |->
             IF o <= a
             THEN seek_rider(
                    add_status([NotifiedOrder EXCEPT
                                  !.payment_status = "RESTAURANT_PAID"],
                               "RESTAURANT_CONFIRMED"),
                    << o >>, riders).order
             ELSE NotifiedOrder]
        /\ escrow_accounts = [o \in 1..MaxOrders |->
                                AccountOf(NotifiedOrder, o <= a)]
        /\ log_limit = MaxLog
        /\ frame = NoFrame
        /\ threads = [t \in Callers |-> IdleCaller]
        /\ call = [op |-> "init", order |-> 0, ret |-> "None"]

Goto(t, pc) == threads' = [threads EXCEPT ![t].pc = pc]

Return(t, ret) ==
    /\ threads' = [threads EXCEPT ![t].pc = "done", ![t].ret = ret]
    /\ Called(threads[t].op, threads[t].order, ret)

(* Caller t enters an operation on order o. *)
enter(t, op, o) ==
    /\ threads[t].pc = "idle"
    /\ threads' = [threads EXCEPT ![t] =
          [IdleCaller EXCEPT !.pc = "guard", !.op = op, !.order = o]]
    /\ UNCHANGED <<riders, rider_queue, orders, escrow_accounts,
                   gps_tolerance, now, log_limit, frame, call>>

(* restaurant_confirm_order: the status guard. *)
confirm_guard(t) ==
    /\ threads[t].pc = "guard"
    /\ threads[t].op = "restaurant_confirm_order"
    /\ IF orders[threads[t].order].status # "RESTAURANT_NOTIFIED"
       THEN Return(t, "False")
       ELSE Goto(t, "pay") /\ UNCHANGED call
    /\ UNCHANGED <<riders, rider_queue, orders, escrow_accounts,
                   gps_tolerance, now, log_limit, frame>>

(* restaurant_confirm_order: the ledger's test and set of restaurant_paid. *)
confirm_pay(t) ==
    /\ threads[t].pc = "pay"
    /\ LET pay == pay_restaurant(escrow_accounts, threads[t].order) IN
         /\ escrow_accounts' = pay.accts
         /\ IF pay.ret
            THEN Goto(t, "paid") /\ UNCHANGED call
            ELSE Return(t, "False")
    /\ UNCHANGED <<riders, rider_queue, orders,
                   gps_tolerance, now, log_limit, frame>>

(* restaurant_confirm_order: payment_status. *)
confirm_paid(t) ==
    /\ threads[t].pc = "paid"
    /\ orders' = [orders EXCEPT
                    ![threads[t].order].payment_status = "RESTAURANT_PAID"]
    /\ Goto(t, "confirmed")
    /\ UNCHANGED <<riders, rider_queue, escrow_accounts,
                   gps_tolerance, now, log_limit, frame, call>>

(* restaurant_confirm_order: the RESTAURANT_CONFIRMED entry. *)
confirm_confirmed(t) ==
    /\ threads[t].pc = "confirmed"
    /\ orders' = [orders EXCEPT ![threads[t].order] =
                    add_status(@, "RESTAURANT_CONFIRMED")]
    /\ Goto(t, "seek")
    /\ UNCHANGED <<riders, rider_queue, escrow_accounts,
                   gps_tolerance, now, log_limit, frame, call>>

(* _seek_rider: the SEEKING_RIDER entry. *)
seek_seeking(t) ==
    /\ threads[t].pc = "seek"
    /\ orders' = [orders EXCEPT ![threads[t].order] =
                    add_status(@, "SEEKING_RIDER")]
    /\ Goto(t, "empty")
    /\ UNCHANGED <<riders, rider_queue, escrow_accounts,
                   gps_tolerance, now, log_limit, frame, call>>

(* _assign_next_rider: the emptiness check; on an empty queue the order    *)
(* stays in SEEKING_RIDER and restaurant_confirm_order returns True.       *)
assign_empty(t) ==
    /\ threads[t].pc = "empty"
    /\ IF rider_queue = << >>
       THEN Return(t, "True")
       ELSE Goto(t, "pop") /\ UNCHANGED call
    /\ UNCHANGED <<riders, rider_queue, orders, escrow_accounts,
                   gps_tolerance, now, log_limit, frame>>

(* _assign_next_rider: rider_queue.pop(0), which raises IndexError on an   *)
(* empty list.                                                             *)
assign_pop(t) ==
    /\ threads[t].pc = "pop"
    /\ IF rider_queue = << >>
       THEN Return(t, "IndexError") /\ UNCHANGED rider_queue
       ELSE /\ rider_queue' = Tail(rider_queue)
            /\ threads' = [threads EXCEPT ![t].pc = "lookup",
                                          ![t].rider_id = Head(rider_queue)]
            /\ UNCHANGED call
    /\ UNCHANGED <<riders, orders, escrow_accounts,
                   gps_tolerance, now, log_limit, frame>>

(* _assign_next_rider: the look-up of the popped id; a stale id starts the *)
(* next invocation.                                                        *)
assign_lookup(t) ==
    /\ threads[t].pc = "lookup"
    /\ IF threads[t].rider_id \notin DOMAIN riders
          \/ ~riders[threads[t].rider_id].is_available
       THEN Goto(t, "empty")
       ELSE Goto(t, "bind")
    /\ UNCHANGED <<riders, rider_queue, orders, escrow_accounts,
                   gps_tolerance, now, log_limit, frame, call>>

(* _assign_next_rider: the binding of assigned_rider. *)
assign_bind(t) ==
    /\ threads[t].pc = "bind"
    /\ orders' = [orders EXCEPT
                    ![threads[t].order].assigned_rider = threads[t].rider_id]
    /\ Goto(t, "deadline")
    /\ UNCHANGED <<riders, rider_queue, escrow_accounts,
                   gps_tolerance, now, log_limit, frame, call>>

(* _assign_next_rider: the acceptance deadline. *)
assign_deadline(t) ==
    /\ threads[t].pc = "deadline"
    /\ orders' = [orders EXCEPT
                    ![threads[t].order].rider_acceptance_deadline =
                        now + rider_timeout_min]
    /\ Goto(t, "assigned")
    /\ UNCHANGED <<riders, rider_queue, escrow_accounts,
                   gps_tolerance, now, log_limit, frame, call>>

(* _assign_next_rider: the RIDER_ASSIGNED entry, and the return of         *)
(* restaurant_confirm_order.                                               *)
assign_assigned(t) ==
    /\ threads[t].pc = "assigned"
    /\ orders' = [orders EXCEPT ![threads[t].order] =
                    add_status(@, "RIDER_ASSIGNED")]
    /\ Return(t, "True")
    /\ UNCHANGED <<riders, rider_queue, escrow_accounts,
                   gps_tolerance, now, log_limit, frame>>

(* rider_accept_order: the guard on the status and on the bound rider. *)
accept_guard(t) ==
    /\ threads[t].pc = "guard"
    /\ threads[t].op = "rider_accept_order"
    /\ IF orders[threads[t].order].status # "RIDER_ASSIGNED"
          \/ orders[threads[t].order].assigned_rider = NoRider
       THEN Return(t, "False")
       ELSE Goto(t, "unavailable") /\ UNCHANGED call
    /\ UNCHANGED <<riders, rider_queue, orders, escrow_accounts,
                   gps_tolerance, now, log_limit, frame>>

(* rider_accept_order: the rider becomes unavailable. *)
accept_unavailable(t) ==
    /\ threads[t].pc = "unavailable"
    /\ riders' = [riders EXCEPT
          ![orders[threads[t].order].assigned_rider].is_available = FALSE]
    /\ Goto(t, "en_route")
    /\ UNCHANGED <<rider_queue, orders, escrow_accounts,
                   gps_tolerance, now, log_limit, frame, call>>

(* rider_accept_order: the RIDER_EN_ROUTE_PICKUP entry, and the return. *)
accept_en_route(t) ==
    /\ threads[t].pc = "en_route"
    /\ orders' = [orders EXCEPT ![threads[t].order] =
                    add_status(@, "RIDER_EN_ROUTE_PICKUP")]
    /\ Return(t, "True")
    /\ UNCHANGED <<riders, rider_queue, escrow_accounts,
                   gps_tolerance, now, log_limit, frame>>

ConcurrentOps == {"restaurant_confirm_order", "rider_accept_order"}

ConcurrentNext ==
    \E t \in Callers :
        \/ \E op \in ConcurrentOps : \E o \in DOMAIN orders : enter(t, op, o)
        \/ confirm_guard(t)
        \/ confirm_pay(t)
        \/ confirm_paid(t)
        \/ confirm_confirmed(t)
        \/ seek_seeking(t)
        \/ assign_empty(t)
        \/ assign_pop(t)
        \/ assign_lookup(t)
        \/ assign_bind(t)
        \/ assign_deadline(t)
        \/ assign_assigned(t)
        \/ accept_guard(t)
        \/ accept_unavailable(t)
        \/ accept_en_route(t)

(* Two callers, one operation each, on the shared platform. *)
ConcurrentSpec == ConcurrentInit /\ [][ConcurrentNext]_vars

(***************************************************************************)
(* The clock.  datetime.now() is read when a rider is assigned, to set the *)
(* acceptance deadline rider_timeout_min minutes ahead; time passes        *)
(* between the calls, one minute at a step.                                *)
(***************************************************************************)
tick ==
    /\ now < MaxNow
    /\ now' = now + 1
    /\ call' = [op |-> "tick", order |-> 0, ret |-> "None"]
    /\ UNCHANGED <<riders, rider_queue, orders, escrow_accounts,
                   gps_tolerance, log_limit, frame, threads>>

ClockNext ==
    \/ Next
    \/ tick

(* A platform with room for MaxClockLog history entries. *)
ClockInit ==
    /\ riders = << >>
    /\ rider_queue = << >>
    /\ orders = << >>
    /\ escrow_accounts = << >>
    /\ gps_tolerance = DefaultGpsTolerance
    /\ now = 0
    /\ log_limit = MaxClockLog
    /\ frame = NoFrame
    /\ threads = [t \in Callers |-> IdleCaller]
    /\ call = [op |-> "init", order |-> 0, ret |-> "None"]

(* The engine while time passes. *)
ClockSpec == ClockInit /\ [][ClockNext]_vars

(***************************************************************************)
(* The actors at work.  Riders register and customers place orders as they *)
(* please; each order is paid for once; and every actor performs the       *)
(* operation an order waits for: the restaurant confirms, the rider        *)
(* accepts, reports arrival from within the tolerance, and pickup and      *)
(* delivery are confirmed.  Each such step is a call of the engine on an   *)
(* order in the state the operation requires.                              *)
(***************************************************************************)
Waits(o, status) == o \in DOMAIN orders /\ orders[o].status = status

pays(o) ==
    Waits(o, "PENDING_PAYMENT") /\ process_payment(o)

restaurant_confirms(o) ==
    Waits(o, "RESTAURANT_NOTIFIED") /\ restaurant_confirm_order(o)

rider_accepts(o) ==
    Waits(o, "RIDER_ASSIGNED") /\ rider_accept_order(o)

rider_reaches_restaurant(o) ==
    /\ Waits(o, "RIDER_EN_ROUTE_PICKUP")
    /\ check_rider_at_restaurant(o, Near(RestaurantLocation, 0))

pickup_confirmed(o) ==
    Waits(o, "RIDER_AT_RESTAURANT") /\ confirm_pickup(o)

rider_reaches_customer(o) ==
    /\ Waits(o, "RIDER_EN_ROUTE_DELIVERY")
    /\ check_rider_at_delivery(o, Near(CustomerLocation, 0))

delivery_confirmed(o) ==
    Waits(o, "RIDER_AT_DELIVERY") /\ confirm_delivery(o)

(* The operation order o waits for. *)
actor_step(o) ==
    \/ pays(o)
    \/ restaurant_confirms(o)
    \/ rider_accepts(o)
    \/ rider_reaches_restaurant(o)
    \/ pickup_confirmed(o)
    \/ rider_reaches_customer(o)
    \/ delivery_confirmed(o)

LiveNext ==
    \/ register_rider
    \/ \E items \in ItemChoices, fee \in FeeChoices : place_order(items, fee)
    \/ \E o \in 1..MaxOrders : actor_step(o)

(* Room for the whole history of every order. *)
LiveInit ==
    /\ riders = << >>
    /\ rider_queue = << >>
    /\ orders = << >>
    /\ escrow_accounts = << >>
    /\ gps_tolerance = DefaultGpsTolerance
    /\ now = 0
    /\ log_limit = MaxOrders * Len(OrderStatus)
    /\ frame = NoFrame
    /\ threads = [t \in Callers |-> IdleCaller]
    /\ call = [op |-> "init", order |-> 0, ret |-> "None"]

(* No call is put off for ever: an operation that an order waits for and   *)
(* that stays possible is performed.  The calls are made by the apps on    *)
(* the actors' clicks; the engine itself schedules nothing.                *)
LiveSpec ==
    /\ LiveInit
    /\ [][LiveNext]_vars
    /\ \A o \in 1..MaxOrders :
          /\ WF_vars(pays(o))
          /\ WF_vars(restaurant_confirms(o))
          /\ WF_vars(rider_accepts(o))
          /\ WF_vars(rider_reaches_restaurant(o))
          /\ WF_vars(pickup_confirmed(o))
          /\ WF_vars(rider_reaches_customer(o))
          /\ WF_vars(delivery_confirmed(o))

(***************************************************************************)
(* Vocabulary of the properties.                                           *)
(***************************************************************************)
TransitionOps ==
    { "process_payment", "restaurant_confirm_order", "rider_accept_order",
      "check_rider_at_restaurant", "confirm_pickup", "check_rider_at_delivery",
      "confirm_delivery" }

LedgerOps == { "create_escrow", "pay_restaurant", "pay_rider_half", "pay_rider_full" }

(* The state an order must be in for the operation to apply (spec 4.3). *)
RequiredStatus(op) ==
    CASE op = "process_payment" -> "PENDING_PAYMENT"
      [] op = "restaurant_confirm_order" -> "RESTAURANT_NOTIFIED"
      [] op = "rider_accept_order" -> "RIDER_ASSIGNED"
      [] op = "check_rider_at_restaurant" -> "RIDER_EN_ROUTE_PICKUP"
      [] op = "confirm_pickup" -> "RIDER_AT_RESTAURANT"
      [] op = "check_rider_at_delivery" -> "RIDER_EN_ROUTE_DELIVERY"
      [] op = "confirm_delivery" -> "RIDER_AT_DELIVERY"

HasAccount(id) == id \in DOMAIN escrow_accounts

HalfPaid(id) == HasAccount(id) /\ escrow_accounts[id].rider_half_paid

(* The step is a call of op on order o. *)
Calls(op, o) == call'.op = op /\ call'.order = o

(* How often rider r occurs in the queue q. *)
RECURSIVE CountIn(_, _)
CountIn(q, r) ==
    IF q = << >> THEN 0
    ELSE (IF Head(q) = r THEN 1 ELSE 0) + CountIn(Tail(q), r)

(* The orders not yet delivered that rider r is bound to. *)
OpenOrdersOf(r) ==
    { o \in DOMAIN orders :
        orders[o].assigned_rider = r /\ orders[o].status # "DELIVERED" }

(***************************************************************************)
(* C1.  Guard discipline: a transition operation invoked on an order that  *)
(* is not in the operation's required prior state returns failure and      *)
(* leaves the order, the ledger, the queue and the riders unchanged.       *)
(***************************************************************************)
C1_GuardDiscipline ==
    [][\A o \in DOMAIN orders : \A op \in TransitionOps :
          (Calls(op, o) /\ orders[o].status # RequiredStatus(op))
          => /\ call'.ret = "False"
             /\ UNCHANGED <<orders, escrow_accounts, rider_queue, riders>>]_vars

(***************************************************************************)
(* C2.  Idempotence of processPayment: a processPayment on an order that   *)
(* was paid before leaves its escrow account, status, payment_status and   *)
(* status_history as they were.                                            *)
(***************************************************************************)
C2_ProcessPaymentIdempotent ==
    [][\A o \in DOMAIN orders :
          (Calls("process_payment", o) /\ HasAccount(o))
          => /\ o \in DOMAIN escrow_accounts'
             /\ escrow_accounts'[o] = escrow_accounts[o]
             /\ orders'[o].status = orders[o].status
             /\ orders'[o].payment_status = orders[o].payment_status
             /\ orders'[o].status_history = orders[o].status_history]_vars

(***************************************************************************)
(* C3.  Every order's status_history is non-empty and runs through the     *)
(* canonical sequence from PENDING_PAYMENT on, one step at a time: it is a *)
(* prefix of the twelve canonical states.                                  *)
(***************************************************************************)
C3_HistoryCanonical ==
    \A o \in DOMAIN orders :
        LET h == orders[o].status_history IN
          /\ Len(h) >= 1
          /\ Len(h) <= Len(OrderStatus)
          /\ \A i \in 1 .. Len(h) : h[i] = OrderStatus[i]

(***************************************************************************)
(* C4.  Two-tranche payout: a confirmDelivery succeeds only when the       *)
(* order's account has rider_half_paid set, which nothing but a successful *)
(* payRiderHalf sets; a confirmDelivery on an order whose rider_half_paid  *)
(* is false returns false and leaves the order's payment_status and        *)
(* status, the riders (their counters) and the dispatch queue unchanged.   *)
(***************************************************************************)
C4_TwoTranche ==
    [][\A o \in DOMAIN orders :
          /\ (Calls("confirm_delivery", o) /\ call'.ret = "True") => HalfPaid(o)
          /\ (Calls("confirm_delivery", o) /\ ~HalfPaid(o))
               => /\ call'.ret = "False"
                  /\ orders'[o].payment_status = orders[o].payment_status
                  /\ orders'[o].status = orders[o].status
                  /\ UNCHANGED <<riders, rider_queue>>
          /\ (~HalfPaid(o) /\ HalfPaid(o)')
               => /\ call'.op \in {"confirm_pickup", "pay_rider_half"}
                  /\ call'.order = o
                  /\ call'.ret = "True"]_vars

(* C4: a confirmDelivery was refused on an order that waits at the         *)
(* delivery location with an account whose rider_half_paid is false.       *)
C4_Witness ==
    /\ call.op = "confirm_delivery"
    /\ call.ret = "False"
    /\ call.order \in DOMAIN orders
    /\ orders[call.order].status = "RIDER_AT_DELIVERY"
    /\ HasAccount(call.order)
    /\ ~escrow_accounts[call.order].rider_half_paid

(***************************************************************************)
(* C5.  Rider queue conservation: every registered rider occurs exactly    *)
(* once in the dispatch queue together with the assigned riders of the     *)
(* orders not yet delivered, and nothing else occurs there.                *)
(***************************************************************************)
C5_QueueConservation ==
    /\ \A i \in 1 .. Len(rider_queue) : rider_queue[i] \in DOMAIN riders
    /\ \A r \in DOMAIN riders :
          CountIn(rider_queue, r) + Cardinality(OpenOrdersOf(r)) = 1

(***************************************************************************)
(* C6.  Escrow flags are monotone: a payout flag that is true stays true   *)
(* in every later state of the order's account.                            *)
(***************************************************************************)
C6_FlagsMonotone ==
    [][\A id \in DOMAIN escrow_accounts :
          /\ id \in DOMAIN escrow_accounts'
          /\ escrow_accounts[id].restaurant_paid
                => escrow_accounts'[id].restaurant_paid
          /\ escrow_accounts[id].rider_half_paid
                => escrow_accounts'[id].rider_half_paid
          /\ escrow_accounts[id].rider_full_paid
                => escrow_accounts'[id].rider_full_paid]_vars

(***************************************************************************)
(* C7.  In every state of the ledger rider_full_paid implies               *)
(* rider_half_paid for every account: payRiderFull succeeds only on an     *)
(* account with rider_half_paid true and rider_full_paid false, and only a *)
(* successful payRiderFull sets rider_full_paid.                           *)
(***************************************************************************)
C7_FullImpliesHalf ==
    [][\A id \in DOMAIN escrow_accounts' :
          LET had == HasAccount(id)
              new == escrow_accounts'[id]
          IN
          /\ new.rider_full_paid => new.rider_half_paid
          /\ (call'.op \in {"pay_rider_full", "confirm_delivery"}
                 /\ call'.order = id /\ call'.ret = "True")
               => /\ had
                  /\ escrow_accounts[id].rider_half_paid
                  /\ ~escrow_accounts[id].rider_full_paid
                  /\ new.rider_full_paid
          /\ (new.rider_full_paid
                 /\ ~(had /\ escrow_accounts[id].rider_full_paid))
               => /\ call'.op \in {"pay_rider_full", "confirm_delivery"}
                  /\ call'.order = id
                  /\ call'.ret = "True"]_vars

(* C7: a payRiderFull has succeeded and left both rider flags set. *)
C7_Witness ==
    /\ call.op = "pay_rider_full"
    /\ call.ret = "True"
    /\ HasAccount(call.order)
    /\ escrow_accounts[call.order].rider_full_paid
    /\ escrow_accounts[call.order].rider_half_paid

(***************************************************************************)
(* C8.  Opening an account for an order id that already has one returns    *)
(* false and leaves the ledger as it was.                                  *)
(***************************************************************************)
C8_OpenOncePerOrder ==
    [][\A id \in OrderIds :
          (Calls("create_escrow", id) /\ HasAccount(id))
          => /\ call'.ret = "False"
             /\ UNCHANGED escrow_accounts]_vars

(***************************************************************************)
(* C9.  payRestaurant succeeds exactly once per account: on an account     *)
(* whose restaurant_paid is false it sets that flag, changes nothing else  *)
(* and returns true; on an account whose flag is set (any later call), or  *)
(* without an account, it returns false and changes nothing.  payRiderHalf *)
(* is the same for rider_half_paid; the outcome of each depends on its own *)
(* flag only, not on the other's.                                          *)
(***************************************************************************)
C9_PayOncePerAccount ==
    [][\A id \in OrderIds :
          /\ Calls("pay_restaurant", id)
               => IF HasAccount(id) /\ ~escrow_accounts[id].restaurant_paid
                  THEN /\ call'.ret = "True"
                       /\ escrow_accounts' =
                            [escrow_accounts EXCEPT ![id].restaurant_paid = TRUE]
                  ELSE /\ call'.ret = "False"
                       /\ UNCHANGED escrow_accounts
          /\ Calls("pay_rider_half", id)
               => IF HasAccount(id) /\ ~escrow_accounts[id].rider_half_paid
                  THEN /\ call'.ret = "True"
                       /\ escrow_accounts' =
                            [escrow_accounts EXCEPT ![id].rider_half_paid = TRUE]
                  ELSE /\ call'.ret = "False"
                       /\ UNCHANGED escrow_accounts]_vars

(* C9: a payRiderHalf has succeeded on an account whose restaurant was not *)
(* paid yet (the rider half does not wait for the restaurant).             *)
C9_Witness ==
    /\ call.op = "pay_rider_half"
    /\ call.ret = "True"
    /\ HasAccount(call.order)
    /\ escrow_accounts[call.order].rider_half_paid
    /\ ~escrow_accounts[call.order].restaurant_paid

(***************************************************************************)
(* C10.  A ledger operation that fails leaves the whole ledger unchanged,  *)
(* and the payouts fail whenever the order id has no account, the targeted *)
(* flag is already set, or (payRiderFull) rider_half_paid is false.        *)
(***************************************************************************)
MustFail(op, id) ==
    \/ op # "create_escrow" /\ ~HasAccount(id)
    \/ op = "pay_restaurant" /\ HasAccount(id)
          /\ escrow_accounts[id].restaurant_paid
    \/ op = "pay_rider_half" /\ HasAccount(id)
          /\ escrow_accounts[id].rider_half_paid
    \/ op = "pay_rider_full" /\ HasAccount(id)
          /\ (escrow_accounts[id].rider_full_paid
                \/ ~escrow_accounts[id].rider_half_paid)

C10_FailureChangesNothing ==
    [][\A id \in OrderIds : \A op \in LedgerOps :
          Calls(op, id)
          => /\ call'.ret = "False" => UNCHANGED escrow_accounts
             /\ MustFail(op, id) => call'.ret = "False"]_vars

(* C10: a payRiderFull was refused on an existing account because its      *)
(* rider_half_paid is false, and the account still has no flag of the      *)
(* rider set.                                                              *)
C10_Witness ==
    /\ call.op = "pay_rider_full"
    /\ call.ret = "False"
    /\ HasAccount(call.order)
    /\ ~escrow_accounts[call.order].rider_half_paid
    /\ ~escrow_accounts[call.order].rider_full_paid

(***************************************************************************)
(* C11.  DELIVERED is terminal: no engine operation changes the status,    *)
(* the payment_status, the status_history or the escrow account of a       *)
(* delivered order, and every transition operation invoked on it returns   *)
(* failure.                                                                *)
(***************************************************************************)
C11_DeliveredTerminal ==
    [][\A o \in DOMAIN orders :
          orders[o].status = "DELIVERED"
          => /\ orders'[o].status = "DELIVERED"
             /\ orders'[o].payment_status = orders[o].payment_status
             /\ orders'[o].status_history = orders[o].status_history
             /\ HasAccount(o) => /\ o \in DOMAIN escrow_accounts'
                                 /\ escrow_accounts'[o] = escrow_accounts[o]
             /\ (call'.op \in TransitionOps /\ call'.order = o)
                   => call'.ret = "False"]_vars

(***************************************************************************)
(* C12.  No double assignment: no rider is the assigned rider of two       *)
(* different orders that are not yet delivered.                            *)
(***************************************************************************)
C12_NoDoubleAssignment ==
    \A r \in DOMAIN riders : Cardinality(OpenOrdersOf(r)) <= 1

(***************************************************************************)
(* C13.  An order's assigned rider is mutually exclusive with membership   *)
(* in the dispatch queue: the rider of every order that has one is not in  *)
(* the queue, also after the order is delivered and the rider re-enqueued. *)
(***************************************************************************)
C13_AssignedNotQueued ==
    \A o \in DOMAIN orders :
        orders[o].assigned_rider # NoRider
        => CountIn(rider_queue, orders[o].assigned_rider) = 0

(* The states in which a rider is bound to the order and at work on it. *)
ActiveStatuses ==
    { "RIDER_ASSIGNED", "RIDER_EN_ROUTE_PICKUP", "RIDER_AT_RESTAURANT",
      "ORDER_PICKED_UP", "RIDER_EN_ROUTE_DELIVERY", "RIDER_AT_DELIVERY" }

(* C13, as the code has it: every order between RIDER_ASSIGNED and         *)
(* RIDER_AT_DELIVERY has an assigned rider, a registered one, who is not   *)
(* in the dispatch queue.  (A delivered order keeps its assigned_rider     *)
(* while that rider is back in the queue.)                                 *)
C13_ActiveRiderNotQueued ==
    \A o \in DOMAIN orders :
        orders[o].status \in ActiveStatuses
        => /\ orders[o].assigned_rider \in DOMAIN riders
           /\ CountIn(rider_queue, orders[o].assigned_rider) = 0

(* C13: a rider delivered one order, was re-enqueued and is now at work on *)
(* a second order: both orders name the rider, who is out of the queue.    *)
C13_Witness ==
    \E a, b \in DOMAIN orders :
        /\ orders[a].status = "DELIVERED"
        /\ orders[b].status \in ActiveStatuses
        /\ orders[a].assigned_rider = orders[b].assigned_rider
        /\ CountIn(rider_queue, orders[b].assigned_rider) = 0

(* Rider r is registered and marked available. *)
Eligible(r) == r \in DOMAIN riders /\ riders[r].is_available

(***************************************************************************)
(* C14.  riderRejectOrTimeout on an order in RIDER_ASSIGNED returns the    *)
(* current rider to the dispatch queue, re-marks the rider available and   *)
(* assigns again: the order stays RIDER_ASSIGNED, and when another idle    *)
(* rider waits in the queue the new assignee is a different rider and the  *)
(* first one is at the tail of the queue.  A riderAcceptOrder that follows *)
(* moves the order to RIDER_EN_ROUTE_PICKUP with that new rider.           *)
(***************************************************************************)
C14_RejectReassigns ==
    [][\A o \in DOMAIN orders :
          LET old == orders[o].assigned_rider
              new == orders'[o].assigned_rider
          IN
          /\ (Calls("rider_reject_or_timeout", o)
                 /\ orders[o].status = "RIDER_ASSIGNED")
               => /\ call'.ret = "True"
                  /\ riders'[old].is_available
                  /\ orders'[o].status = "RIDER_ASSIGNED"
                  /\ new \in DOMAIN riders
                  /\ \A x \in DOMAIN riders :
                        CountIn(rider_queue', x) + (IF new = x THEN 1 ELSE 0)
                          = CountIn(rider_queue, x) + (IF old = x THEN 1 ELSE 0)
                  /\ (\E i \in 1 .. Len(rider_queue) : Eligible(rider_queue[i]))
                        => /\ new # old
                           /\ rider_queue'[Len(rider_queue')] = old
          /\ (Calls("rider_accept_order", o)
                 /\ orders[o].status = "RIDER_ASSIGNED")
               => /\ call'.ret = "True"
                  /\ orders'[o].status = "RIDER_EN_ROUTE_PICKUP"
                  /\ new = old]_vars

(* C14: an offer was rejected (two RIDER_ASSIGNED entries in a row) and    *)
(* the next rider accepted: the order is RIDER_EN_ROUTE_PICKUP and the     *)
(* first assignee waits at the tail of the queue.                          *)
C14_Witness ==
    /\ call.op = "rider_accept_order"
    /\ call.ret = "True"
    /\ call.order \in DOMAIN orders
    /\ LET order == orders[call.order]
           h == order.status_history
       IN  /\ order.status = "RIDER_EN_ROUTE_PICKUP"
           /\ Len(h) >= 3
           /\ h[Len(h) - 1] = "RIDER_ASSIGNED"
           /\ h[Len(h) - 2] = "RIDER_ASSIGNED"
           /\ rider_queue # << >>
           /\ rider_queue[Len(rider_queue)] # order.assigned_rider

(***************************************************************************)
(* C15.  restaurantConfirmOrder on an order in RESTAURANT_NOTIFIED returns *)
(* true, sets restaurant_paid and payment_status RESTAURANT_PAID, appends  *)
(* RESTAURANT_CONFIRMED then SEEKING_RIDER and attempts assignment: with a *)
(* non-empty queue the order ends RIDER_ASSIGNED, bound to the rider at    *)
(* the front of the queue, who leaves the queue; with an empty queue it    *)
(* ends SEEKING_RIDER.                                                     *)
(***************************************************************************)
C15_RestaurantConfirm ==
    [][\A o \in DOMAIN orders :
          (Calls("restaurant_confirm_order", o)
             /\ orders[o].status = "RESTAURANT_NOTIFIED")
          => LET h == orders[o].status_history
                 new == orders'[o]
             IN
             /\ call'.ret = "True"
             /\ HasAccount(o)
             /\ escrow_accounts' =
                   [escrow_accounts EXCEPT ![o].restaurant_paid = TRUE]
             /\ new.payment_status = "RESTAURANT_PAID"
             /\ IF rider_queue # << >>
                THEN /\ new.status = "RIDER_ASSIGNED"
                     /\ new.status_history =
                           h \o << "RESTAURANT_CONFIRMED", "SEEKING_RIDER",
                                   "RIDER_ASSIGNED" >>
                     /\ new.assigned_rider = Head(rider_queue)
                     /\ rider_queue' = Tail(rider_queue)
                ELSE /\ new.status = "SEEKING_RIDER"
                     /\ new.status_history =
                           h \o << "RESTAURANT_CONFIRMED", "SEEKING_RIDER" >>
                     /\ UNCHANGED rider_queue]_vars

(* C15: one order was confirmed while no rider waited and is               *)
(* SEEKING_RIDER; another has just been confirmed and is RIDER_ASSIGNED.   *)
C15_Witness ==
    /\ call.op = "restaurant_confirm_order"
    /\ call.ret = "True"
    /\ call.order \in DOMAIN orders
    /\ orders[call.order].status = "RIDER_ASSIGNED"
    /\ orders[call.order].assigned_rider \in DOMAIN riders
    /\ escrow_accounts[call.order].restaurant_paid
    /\ \E a \in DOMAIN orders :
          /\ orders[a].status = "SEEKING_RIDER"
          /\ orders[a].payment_status = "RESTAURANT_PAID"

(***************************************************************************)
(* C16.  A successful confirmDelivery is taken from RIDER_AT_DELIVERY; it  *)
(* sets rider_full_paid and payment_status RIDER_FULL_PAID, moves the      *)
(* order to DELIVERED, increments the assigned rider's delivery counter by *)
(* exactly 1, marks that rider available and appends the rider's id to the *)
(* tail of the dispatch queue exactly once; no other rider, no other order *)
(* and no other account changes.                                           *)
(***************************************************************************)
C16_ConfirmDelivery ==
    [][\A o \in DOMAIN orders :
          (Calls("confirm_delivery", o) /\ call'.ret = "True")
          => LET rider == orders[o].assigned_rider IN
             /\ orders[o].status = "RIDER_AT_DELIVERY"
             /\ rider \in DOMAIN riders
             /\ escrow_accounts' =
                   [escrow_accounts EXCEPT ![o].rider_full_paid = TRUE]
             /\ orders' = [orders EXCEPT ![o] =
                   [@ EXCEPT !.payment_status = "RIDER_FULL_PAID",
                             !.status = "DELIVERED",
                             !.status_history = Append(@, "DELIVERED")]]
             /\ riders' = [riders EXCEPT ![rider] =
                   [@ EXCEPT !.is_available = TRUE,
                             !.total_deliveries = @ + 1]]
             /\ rider_queue' = Append(rider_queue, rider)
             /\ CountIn(rider_queue', rider) = 1]_vars

(* C16: a delivery has just been confirmed: the order is DELIVERED and     *)
(* fully paid, its rider has one delivery, is available and stands at the  *)
(* tail of the queue behind another rider, and a second order exists.      *)
C16_Witness ==
    /\ call.op = "confirm_delivery"
    /\ call.ret = "True"
    /\ call.order \in DOMAIN orders
    /\ Cardinality(DOMAIN orders) >= 2
    /\ LET order == orders[call.order]
           rider == order.assigned_rider
       IN  /\ order.status = "DELIVERED"
           /\ order.payment_status = "RIDER_FULL_PAID"
           /\ escrow_accounts[call.order].rider_full_paid
           /\ riders[rider].total_deliveries = 1
           /\ riders[rider].is_available
           /\ Len(rider_queue) >= 2
           /\ rider_queue[Len(rider_queue)] = rider
           /\ CountIn(rider_queue, rider) = 1

(* What a location check of order o must do when the rider is dist         *)
(* millimetres from the target and the check leads to the status next.     *)
GpsOutcome(o, dist, next) ==
    IF dist <= gps_tolerance * 1000
    THEN /\ call'.ret = "True"
         /\ orders' = [orders EXCEPT ![o] =
               [@ EXCEPT !.status = next,
                         !.status_history = Append(@, next)]]
         /\ UNCHANGED <<riders, rider_queue, escrow_accounts>>
    ELSE /\ call'.ret = "False"
         /\ UNCHANGED <<orders, riders, rider_queue, escrow_accounts>>

(***************************************************************************)
(* C17.  The two location checks, invoked in their required status,        *)
(* advance the order and return true exactly when the reported position is *)
(* within gps_tolerance of the target, a distance equal to the tolerance   *)
(* included; otherwise they return false and leave the order, the riders,  *)
(* the queue and the ledger unchanged, so that the check can be repeated.  *)
(***************************************************************************)
C17_GpsChecks ==
    [][\A o \in DOMAIN orders : \A d \in GpsOffsets :
          LET at_restaurant == Near(RestaurantLocation, d)
              at_customer == Near(CustomerLocation, d)
          IN
          /\ (orders[o].status = "RIDER_EN_ROUTE_PICKUP"
                 /\ Calls("check_rider_at_restaurant", o)
                 /\ check_rider_at_restaurant(o, at_restaurant))
               => GpsOutcome(o, distance_to(at_restaurant, RestaurantLocation),
                             "RIDER_AT_RESTAURANT")
          /\ (orders[o].status = "RIDER_EN_ROUTE_DELIVERY"
                 /\ Calls("check_rider_at_delivery", o)
                 /\ check_rider_at_delivery(o, at_customer))
               => GpsOutcome(o, distance_to(at_customer, CustomerLocation),
                             "RIDER_AT_DELIVERY")]_vars

(* C17: with a tolerance of zero a rider standing on the customer's        *)
(* location (distance equal to the tolerance) has passed the check, after  *)
(* passing the one at the restaurant in the same way.                      *)
C17_Witness ==
    /\ gps_tolerance = 0
    /\ call.op = "check_rider_at_delivery"
    /\ call.ret = "True"
    /\ call.order \in DOMAIN orders
    /\ orders[call.order].status = "RIDER_AT_DELIVERY"

(***************************************************************************)
(* C18.  NoAvailableRider: an order whose assignment attempt found the     *)
(* dispatch queue exhausted stays SEEKING_RIDER with no rider bound; in    *)
(* every reachable state an order whose status is SEEKING_RIDER has no     *)
(* assigned rider.                                                         *)
(***************************************************************************)
C18_SeekingHasNoRider ==
    \A o \in DOMAIN orders :
        orders[o].status = "SEEKING_RIDER"
        => orders[o].assigned_rider = NoRider

(* Queue after is queue before with one entry, the id r, taken out. *)
RemovedOne(before, after, r) ==
    \E i \in 1 .. Len(before) :
        /\ before[i] = r
        /\ after = SubSeq(before, 1, i - 1) \o SubSeq(before, i + 1, Len(before))

(***************************************************************************)
(* C19.  The dispatch queue changes at three events only: a registration   *)
(* appends the new rider, a successful assignment removes exactly the      *)
(* rider that becomes the order's assigned rider, and a completed delivery *)
(* appends the delivering rider.  Every other step of the engine leaves    *)
(* the queue unchanged, so no id leaves it without being bound to an order *)
(* by the same step.                                                       *)
(***************************************************************************)
C19_QueueEvents ==
    [][LET o == call'.order
           registered == call'.op = "register_rider"
           assigned == /\ call'.op = "restaurant_confirm_order"
                       /\ call'.ret = "True"
                       /\ orders'[o].status = "RIDER_ASSIGNED"
           delivered == call'.op = "confirm_delivery" /\ call'.ret = "True"
       IN
       /\ registered => /\ o \notin DOMAIN riders
                         /\ rider_queue' = Append(rider_queue, o)
       /\ assigned => RemovedOne(rider_queue, rider_queue',
                                 orders'[o].assigned_rider)
       /\ delivered => rider_queue' = Append(rider_queue,
                                             orders[o].assigned_rider)
       /\ ~(registered \/ assigned \/ delivered) => UNCHANGED rider_queue]_vars

(* C19: all three events have happened: a rider delivered an order and was *)
(* appended behind a rider registered later, who has just been taken off   *)
(* the queue and bound to the next order.                                  *)
C19_Witness ==
    /\ call.op = "restaurant_confirm_order"
    /\ call.ret = "True"
    /\ call.order \in DOMAIN orders
    /\ orders[call.order].status = "RIDER_ASSIGNED"
    /\ Len(rider_queue) = 1
    /\ riders[rider_queue[1]].total_deliveries = 1
    /\ orders[call.order].assigned_rider # rider_queue[1]
    /\ riders[orders[call.order].assigned_rider].total_deliveries = 0

Position(status) ==
    CHOOSE i \in 1 .. Len(OrderStatus) : OrderStatus[i] = status

(* How many different states a history names. *)
DistinctStates(h) == Cardinality({ h[i] : i \in 1 .. Len(h) })

(***************************************************************************)
(* C21.  getOrderJourney returns current_step equal to the 1-based         *)
(* position of the order's status in the canonical sequence, with          *)
(* progress_percentage = step/12*100, the assigned rider or null and the   *)
(* full history, and changes neither the order nor any engine state; the   *)
(* step is in 1..12 and equals the number of distinct canonical states the *)
(* order has passed through.                                               *)
(***************************************************************************)
C21_Journey ==
    [][\A o \in DOMAIN orders :
          Calls("get_order_journey", o)
          => LET j == call'.journey IN
             /\ j.current_step = Position(orders[o].status)
             /\ j.current_step \in 1 .. 12
             /\ j.progress_percentage * 12 <= j.current_step * 10000
             /\ j.current_step * 10000 < (j.progress_percentage + 1) * 12
             /\ j.assigned_rider = orders[o].assigned_rider
             /\ j.history = orders[o].status_history
             /\ UNCHANGED <<orders, riders, rider_queue, escrow_accounts>>
             /\ j.current_step = DistinctStates(orders[o].status_history)]_vars

(***************************************************************************)
(* C22: when two callers invoke the same transition on the same order and  *)
(* their statements interleave, at most one of them returns True and the   *)
(* other returns False.                                                    *)
(***************************************************************************)
C22_PerOrderSerialization ==
    \A t, u \in Callers :
        ( /\ t # u
          /\ threads[t].pc = "done"
          /\ threads[u].pc = "done"
          /\ threads[t].op = threads[u].op
          /\ threads[t].order = threads[u].order )
        => /\ threads[t].ret \in {"True", "False"}
           /\ threads[u].ret \in {"True", "False"}
           /\ ~(threads[t].ret = "True" /\ threads[u].ret = "True")

(***************************************************************************)
(* C23: when assignment runs for two orders at once, no rider is bound to  *)
(* both orders and no caller pops from an empty queue.                     *)
(***************************************************************************)
C23_AtomicDequeue ==
    /\ \A t \in Callers : threads[t].ret # "IndexError"
    /\ \A o, p \in DOMAIN orders :
          ( /\ o # p
            /\ orders[o].assigned_rider # NoRider )
          => orders[o].assigned_rider # orders[p].assigned_rider

(***************************************************************************)
(* C24.  In every reachable state an order in RESTAURANT_NOTIFIED has an   *)
(* account with restaurant_paid false, an order in RIDER_AT_RESTAURANT an  *)
(* account with rider_half_paid false, and an order in RIDER_AT_DELIVERY   *)
(* an account with rider_half_paid true and rider_full_paid false; hence   *)
(* restaurant_confirm_order, confirm_pickup and confirm_delivery return    *)
(* True whenever the order is in their required state.                     *)
(***************************************************************************)
C24_PayoutsNeverFail ==
    /\ [](\A o \in DOMAIN orders :
            /\ orders[o].status = "RESTAURANT_NOTIFIED"
                 => HasAccount(o) /\ ~escrow_accounts[o].restaurant_paid
            /\ orders[o].status = "RIDER_AT_RESTAURANT"
                 => HasAccount(o) /\ ~escrow_accounts[o].rider_half_paid
            /\ orders[o].status = "RIDER_AT_DELIVERY"
                 => /\ HasAccount(o)
                    /\ escrow_accounts[o].rider_half_paid
                    /\ ~escrow_accounts[o].rider_full_paid)
    /\ [][\A o \in DOMAIN orders :
            \A op \in {"restaurant_confirm_order", "confirm_pickup",
                       "confirm_delivery"} :
              (Calls(op, o) /\ orders[o].status = RequiredStatus(op))
              => call'.ret = "True"]_vars

(* C24: an order paid for a second time after its restaurant was paid has  *)
(* been confirmed by the restaurant again, picked up and delivered.        *)
C24_Witness ==
    /\ call.op = "confirm_delivery"
    /\ call.ret = "True"
    /\ call.order \in DOMAIN orders
    /\ orders[call.order].status = "DELIVERED"
    /\ CountIn(orders[call.order].status_history, "RESTAURANT_CONFIRMED") = 2

(***************************************************************************)
(* C25.  A rider_accept_order on an order in RIDER_ASSIGNED with a bound   *)
(* rider always returns True, marks that rider unavailable and moves the   *)
(* order to RIDER_EN_ROUTE_PICKUP, whether or not the acceptance deadline  *)
(* has passed; the passing of time changes nothing, and an order in        *)
(* RIDER_ASSIGNED keeps its status, its rider and its deadline on every    *)
(* step that is not a rider_accept_order or a process_payment on it.       *)
(***************************************************************************)
C25_DeadlineNotEnforced ==
    [][\A o \in DOMAIN orders :
          (orders[o].status = "RIDER_ASSIGNED"
             /\ orders[o].assigned_rider # NoRider)
          => /\ Calls("rider_accept_order", o)
                  => /\ call'.ret = "True"
                     /\ ~riders'[orders[o].assigned_rider].is_available
                     /\ orders'[o].status = "RIDER_EN_ROUTE_PICKUP"
                     /\ orders'[o].assigned_rider = orders[o].assigned_rider
             /\ call'.op = "tick"
                  => UNCHANGED <<orders, riders, rider_queue, escrow_accounts>>
             /\ ~(Calls("rider_accept_order", o) \/ Calls("process_payment", o))
                  => orders'[o] = orders[o]]_vars

(* C25: a rider has just accepted an order after its deadline had passed.  *)
C25_Witness ==
    /\ call.op = "rider_accept_order"
    /\ call.ret = "True"
    /\ call.order \in DOMAIN orders
    /\ orders[call.order].status = "RIDER_EN_ROUTE_PICKUP"
    /\ now > orders[call.order].rider_acceptance_deadline
    /\ orders[call.order].rider_acceptance_deadline >= rider_timeout_min

(***************************************************************************)
(* C26.  FIFO dispatch: a restaurant_confirm_order that assigns a rider    *)
(* binds the head of the queue and removes it; a successful                *)
(* confirm_delivery puts its rider behind every rider already waiting; and *)
(* on every step two riders who both stay in the queue keep their order,   *)
(* a rider leaves the queue only from its head, and a rider who enters it  *)
(* stands behind all who were waiting.                                     *)
(***************************************************************************)
C26_FifoDispatch ==
    [][/\ \A o \in DOMAIN orders :
            /\ ( /\ Calls("restaurant_confirm_order", o)
                 /\ call'.ret = "True"
                 /\ orders'[o].status = "RIDER_ASSIGNED" )
               => /\ rider_queue # << >>
                  /\ orders'[o].assigned_rider = Head(rider_queue)
                  /\ rider_queue' = Tail(rider_queue)
            /\ (Calls("confirm_delivery", o) /\ call'.ret = "True")
               => rider_queue' = Append(rider_queue, orders[o].assigned_rider)
       /\ \A i, j \in DOMAIN rider_queue :
            i < j =>
              LET before == { k \in DOMAIN rider_queue' :
                                rider_queue'[k] = rider_queue[i] }
                  after == { k \in DOMAIN rider_queue' :
                               rider_queue'[k] = rider_queue[j] }
              IN /\ before = {} => i = 1
                 /\ after = {} => before = {}
                 /\ \A k \in before : \A l \in after : k < l
       /\ \A k \in DOMAIN rider_queue' :
            (\A i \in DOMAIN rider_queue : rider_queue[i] # rider_queue'[k])
            => \A l \in DOMAIN rider_queue' :
                 (\E i \in DOMAIN rider_queue : rider_queue[i] = rider_queue'[l])
                 => l < k]_vars

(* C26: the rider taken from the head while another waited has delivered   *)
(* and stands behind that other rider.                                     *)
C26_Witness ==
    /\ call.op = "confirm_delivery"
    /\ call.ret = "True"
    /\ call.order \in DOMAIN orders
    /\ Len(rider_queue) >= 2
    /\ rider_queue[Len(rider_queue)] = orders[call.order].assigned_rider
    /\ Head(rider_queue) # orders[call.order].assigned_rider

(***************************************************************************)
(* C27.  Each order's status is the last entry of its status_history; on   *)
(* every step the history an order had is a prefix of the history it has   *)
(* after; every entry appended records one change of status (it differs    *)
(* from the entry before it), and a step that changes the status of an     *)
(* order appends to its history.                                           *)
(***************************************************************************)
C27_HistoryAppendOnly ==
    /\ [](\A o \in DOMAIN orders :
            LET h == orders[o].status_history IN
              Len(h) >= 1 /\ orders[o].status = h[Len(h)])
    /\ [][\A o \in DOMAIN orders :
            LET h == orders[o].status_history
                g == orders'[o].status_history
            IN /\ o \in DOMAIN orders'
               /\ Len(g) >= Len(h)
               /\ SubSeq(g, 1, Len(h)) = h
               /\ orders'[o].status # orders[o].status => Len(g) > Len(h)
               /\ \A i \in (Len(h) + 1) .. Len(g) : g[i] # g[i - 1]]_vars

(* C27: a second process_payment has appended its two entries to the      *)
(* history of an order that had been assigned a rider.                     *)
C27_Witness ==
    /\ call.op = "process_payment"
    /\ call.order \in DOMAIN orders
    /\ LET h == orders[call.order].status_history IN
         /\ Len(h) = 8
         /\ h[6] = "RIDER_ASSIGNED"
         /\ h[7] = "PAYMENT_ESCROWED"
         /\ h[8] = orders[call.order].status

(***************************************************************************)
(* C28.  No engine operation on a reachable state ends in an exception:    *)
(* every call of a transition returns True or False; an order in           *)
(* RIDER_AT_DELIVERY always has a registered rider bound, so               *)
(* confirm_delivery never dereferences a missing rider; and an assignment  *)
(* takes a rider only from a queue that is not empty.                      *)
(***************************************************************************)
C28_NoExceptions ==
    /\ [](/\ call.op \in TransitionOps => call.ret \in {"True", "False"}
          /\ call.ret \notin {"AttributeError", "IndexError", "RecursionError"}
          /\ \A o \in DOMAIN orders :
                orders[o].status = "RIDER_AT_DELIVERY"
                => orders[o].assigned_rider \in DOMAIN riders)
    /\ [][\A o \in DOMAIN orders :
            (Calls("restaurant_confirm_order", o)
               /\ orders'[o].assigned_rider # orders[o].assigned_rider)
            => rider_queue # << >>]_vars

(* C28: a restaurant has confirmed an order while no rider waited, which  *)
(* left it SEEKING_RIDER with no rider bound, and a confirm_delivery on    *)
(* that order has been refused with False.                                 *)
C28_Witness ==
    /\ call.op = "confirm_delivery"
    /\ call.ret = "False"
    /\ call.order \in DOMAIN orders
    /\ orders[call.order].status = "SEEKING_RIDER"
    /\ orders[call.order].assigned_rider = NoRider
    /\ rider_queue = << >>

(***************************************************************************)
(* C29.  Every id in the dispatch queue is a registered rider whose        *)
(* is_available flag is true, and no id stands in the queue twice; hence   *)
(* an assignment never skips an entry: it removes the head alone and binds *)
(* it, and no step shortens the queue by more than that.                   *)
(***************************************************************************)
C29_QueueEligible ==
    /\ [](\A i \in DOMAIN rider_queue :
            /\ rider_queue[i] \in DOMAIN riders
            /\ riders[rider_queue[i]].is_available
            /\ \A j \in DOMAIN rider_queue :
                  rider_queue[j] = rider_queue[i] => j = i)
    /\ [][/\ Len(rider_queue') >= Len(rider_queue) - 1
          /\ Len(rider_queue') < Len(rider_queue)
               => /\ rider_queue' = Tail(rider_queue)
                  /\ call'.op = "restaurant_confirm_order"
                  /\ call'.order \in DOMAIN orders'
                  /\ orders'[call'.order].assigned_rider = Head(rider_queue)
                  /\ orders'[call'.order].status = "RIDER_ASSIGNED"]_vars

(* C29: a rider who accepted an order, was unavailable and delivered it    *)
(* waits in the queue again.                                               *)
C29_Witness ==
    /\ call.op = "confirm_delivery"
    /\ \E i \in DOMAIN rider_queue :
          /\ riders[rider_queue[i]].total_deliveries >= 1
          /\ riders[rider_queue[i]].is_available

(* What payment_status and the three payout flags are in each status the  *)
(* claim names: the flags as <<restaurant, rider half, rider full>>.       *)
PaymentOf(status) ==
    CASE status = "PENDING_PAYMENT" -> "PENDING"
      [] status = "RESTAURANT_NOTIFIED" -> "ESCROWED"
      [] status \in {"RESTAURANT_CONFIRMED", "SEEKING_RIDER", "RIDER_ASSIGNED",
                     "RIDER_EN_ROUTE_PICKUP", "RIDER_AT_RESTAURANT"}
           -> "RESTAURANT_PAID"
      [] status \in {"ORDER_PICKED_UP", "RIDER_EN_ROUTE_DELIVERY",
                     "RIDER_AT_DELIVERY"} -> "RIDER_HALF_PAID"
      [] status = "DELIVERED" -> "RIDER_FULL_PAID"
      [] OTHER -> "none"

FlagsOf(status) ==
    CASE PaymentOf(status) = "ESCROWED" -> << FALSE, FALSE, FALSE >>
      [] PaymentOf(status) = "RESTAURANT_PAID" -> << TRUE, FALSE, FALSE >>
      [] PaymentOf(status) = "RIDER_HALF_PAID" -> << TRUE, TRUE, FALSE >>
      [] PaymentOf(status) = "RIDER_FULL_PAID" -> << TRUE, TRUE, TRUE >>
      [] OTHER -> << FALSE, FALSE, FALSE >>

(***************************************************************************)
(* C30.  payment_status and the escrow flags are a function of the status: *)
(* PENDING and no account in PENDING_PAYMENT; ESCROWED and no flag in      *)
(* RESTAURANT_NOTIFIED; RESTAURANT_PAID and restaurant_paid alone from     *)
(* RESTAURANT_CONFIRMED to RIDER_AT_RESTAURANT; RIDER_HALF_PAID with       *)
(* restaurant_paid and rider_half_paid from ORDER_PICKED_UP to             *)
(* RIDER_AT_DELIVERY; RIDER_FULL_PAID and all three in DELIVERED.  No      *)
(* rider flag is set in an account whose restaurant_paid is false.         *)
(***************************************************************************)
C30_PaymentFollowsStatus ==
    \A o \in DOMAIN orders :
        /\ PaymentOf(orders[o].status) # "none"
        /\ orders[o].payment_status = PaymentOf(orders[o].status)
        /\ IF orders[o].status = "PENDING_PAYMENT"
           THEN ~HasAccount(o)
           ELSE /\ HasAccount(o)
                /\ << escrow_accounts[o].restaurant_paid,
                      escrow_accounts[o].rider_half_paid,
                      escrow_accounts[o].rider_full_paid >>
                   = FlagsOf(orders[o].status)
        /\ ( /\ HasAccount(o)
              /\ \/ escrow_accounts[o].rider_half_paid
                 \/ escrow_accounts[o].rider_full_paid )
           => escrow_accounts[o].restaurant_paid

(* C30: an order has been delivered, with all three flags set, and has     *)
(* then been paid for again.                                               *)
C30_Witness ==
    /\ call.op = "process_payment"
    /\ call.order \in DOMAIN orders
    /\ orders[call.order].payment_status = "ESCROWED"
    /\ CountIn(orders[call.order].status_history, "DELIVERED") = 1
    /\ ~escrow_accounts[call.order].restaurant_paid

(* The statuses of a delivery in progress, from the rider's acceptance to  *)
(* the arrival at the customer.                                            *)
InProgressStatuses ==
    { "RIDER_EN_ROUTE_PICKUP", "RIDER_AT_RESTAURANT", "ORDER_PICKED_UP",
      "RIDER_EN_ROUTE_DELIVERY", "RIDER_AT_DELIVERY" }

(***************************************************************************)
(* C31.  A rider's is_available flag is false exactly when the rider is    *)
(* the assigned rider of some order whose status lies between              *)
(* RIDER_EN_ROUTE_PICKUP and RIDER_AT_DELIVERY.                            *)
(***************************************************************************)
C31_UnavailableIffDelivering ==
    \A r \in DOMAIN riders :
        ~riders[r].is_available
        <=> \E o \in DOMAIN orders :
               /\ orders[o].assigned_rider = r
               /\ orders[o].status \in InProgressStatuses

(***************************************************************************)
(* C32.  With at least one rider registered, each order paid once and      *)
(* every actor performing the operation an order waits for, every placed   *)
(* order is eventually DELIVERED; an order left in SEEKING_RIDER on an     *)
(* empty queue is assigned once a rider is back in the queue.              *)
(***************************************************************************)
C32_EveryOrderDelivered ==
    \A o \in 1..MaxOrders :
        (o \in DOMAIN orders /\ DOMAIN riders # {})
        ~> (o \in DOMAIN orders /\ orders[o].status = "DELIVERED")

====
